---- MODULE Spec2Model ----
(***************************************************************************)
(* Model of red_githubbot.issue_parser: the walker over the markdown node  *)
(* tree (_parser.py), the grammar (_regexes.py), the action table          *)
(* (actions.py) and the result record (wrappers.py); and of the rate       *)
(* limiter of red_githubbot.utils (github_rate_limiter).                   *)
(*                                                                         *)
(* A string is a sequence of one-character strings.  Positions are 1-based *)
(* and an "end" is the position of the first character after a match.      *)
(***************************************************************************)
EXTENDS Integers, Sequences, FiniteSets, TLC

(***************************************************************************)
(* The state: the locals of the running call of parse_issue_body, and what *)
(* outlives a call.                                                        *)
(***************************************************************************)
VARIABLES
    pc,           \* "idle", "walk" (inside parse_issue_body), "done", "raised"
    tree,         \* parse_markdown(body)
    issue,        \* the local issue of the call: a reference to its ParsedIssue
    stack,        \* the frames of _parse_children: nodes, idx and the place in the loop body
    scan,         \* the TEXT_RE.finditer iterator of _parse_text and its current match
    heap,         \* the ParsedIssue objects constructed so far, by reference
    ActionTable,  \* the module globals of actions.py
    parked,       \* the calls of other threads: the locals of each
    gh_lock,               \* _gh_lock: the asyncio.Lock, its _locked and its _waiters
    gh_lock_owner,         \* _gh_lock_owner: the task inside the limiter, or None
    gh_lock_should_sleep,  \* _gh_lock_should_sleep
    timers,                \* the calls of _gh_lock.release that call_later has scheduled
    task,                  \* each asyncio task: where it is and its entries of the limiter
    asked                  \* history: the should_sleep arguments since the lock was acquired

\* Python's None where a string is optional: a sequence no string equals
None == <<"None">>
\* a regex search that returns None
NoMatch == [kind |-> "NoMatch"]

(***************************************************************************)
(* Characters and character classes of the regular expressions.            *)
(***************************************************************************)
NL == "\n"
CR == "\r"
TAB == "\t"
VT == "\\v"
\* U+017F, LATIN SMALL LETTER LONG S: a lower-case letter outside ASCII
LongS == "\\u017f"

LowerLetters == <<"a","b","c","d","e","f","g","h","i","j","k","l","m",
                  "n","o","p","q","r","s","t","u","v","w","x","y","z">>
UpperLetters == <<"A","B","C","D","E","F","G","H","I","J","K","L","M",
                  "N","O","P","Q","R","S","T","U","V","W","X","Y","Z">>
DigitChars == <<"0","1","2","3","4","5","6","7","8","9">>

Range(f) == {f[i] : i \in DOMAIN f}

UpperSet == Range(UpperLetters)
\* \d
DigitSet == Range(DigitChars)
\* \w
WordSet == Range(LowerLetters) \cup UpperSet \cup DigitSet \cup {"_", LongS}
\* [\w\-\.]
SlugSet == WordSet \cup {"-", "."}
\* (?:\ |\t)
BlankSet == {" ", TAB}

\* str.lower() of one character
LowerMap ==
    [c \in UpperSet |->
        LowerLetters[CHOOSE i \in DOMAIN UpperLetters : UpperLetters[i] = c]]
LowerChar(c) == IF c \in UpperSet THEN LowerMap[c] ELSE c

\* str.lower()
Lower(s) == [i \in DOMAIN s |-> LowerChar(s[i])]

\* the boundary class as [^\n\v\r]: word characters are let through
IsBoundaryChar_AnyButBreak(c) == c \notin {NL, VT, CR}

\* [^\w\n\v\r]
IsBoundaryChar(c) == c \notin WordSet /\ c \notin {NL, VT, CR}

\* the simple case folding of one character: the long s folds to s
CaseFold(c) == IF c = LongS THEN "s" ELSE LowerChar(c)

\* the comparison of two characters without regex.IGNORECASE
CaseEq_Exact(c, d) == c = d

\* two characters are equal under regex.IGNORECASE
CaseEq(c, d) == CaseFold(c) = CaseFold(d)

\* the literal lit matches s at position p (under regex.IGNORECASE)
LitAt(s, p, lit) ==
    /\ p + Len(lit) - 1 <= Len(s)
    /\ \A i \in 1..Len(lit) : CaseEq(s[p + i - 1], lit[i])

\* (?!\w) at position p
NotWordAt(s, p) == p > Len(s) \/ s[p] \notin WordSet

Max(S) == CHOOSE x \in S : \A y \in S : y <= x
Min(S) == CHOOSE x \in S : \A y \in S : x <= y

\* int() of a run of decimal digits
DigitValue == [c \in DigitSet |-> (CHOOSE i \in DOMAIN DigitChars : DigitChars[i] = c) - 1]

RECURSIVE ToInt(_)
ToInt(ds) ==
    IF ds = <<>> THEN 0
    ELSE 10 * ToInt(SubSeq(ds, 1, Len(ds) - 1)) + DigitValue[ds[Len(ds)]]

(***************************************************************************)
(* actions.py                                                              *)
(***************************************************************************)
kwClose == <<"c","l","o","s","e">>
kwCloses == <<"c","l","o","s","e","s">>
kwClosed == <<"c","l","o","s","e","d">>
kwFix == <<"f","i","x">>
kwFixes == <<"f","i","x","e","s">>
kwFixed == <<"f","i","x","e","d">>
kwResolve == <<"r","e","s","o","l","v","e">>
kwResolves == <<"r","e","s","o","l","v","e","s">>
kwResolved == <<"r","e","s","o","l","v","e","d">>

\* the ACTIONS table (ACTIONS is a reserved word of TLA+): action name ->
\* keyword spellings, in source order
Actions ==
    [a \in {"close"} |->
        <<kwClose, kwCloses, kwClosed, kwFix, kwFixes, kwFixed,
          kwResolve, kwResolves, kwResolved>>]

ActionNames == DOMAIN Actions

\* KEYWORDS: keyword -> action name
KeywordSet == UNION {Range(Actions[a]) : a \in ActionNames}
KEYWORDS == [k \in KeywordSet |-> CHOOSE a \in ActionNames : k \in Range(Actions[a])]

\* iteration order of KEYWORDS, the order of the alternation in _KEYWORD_PATTERN
KeywordOrder == Actions["close"]

(***************************************************************************)
(* _regexes.py.  Each operator returns the match the regex engine returns: *)
(* the first one in the engine's backtracking order (alternatives left to  *)
(* right, optional groups and repetitions greedy), or NoMatch.             *)
(***************************************************************************)
litHttps == <<"h","t","t","p","s",":","/","/","g","i","t","h","u","b",".","c","o","m","/">>
litIssues == <<"/","i","s","s","u","e","s","/">>
litPull == <<"/","p","u","l","l","/">>
litHash == <<"#">>
litGh == <<"g","h","-">>

\* what follows the slug up to the number: /(?:issues|pull)/ and (?:\#|gh-)
UrlTails == {litIssues, litPull}
AutoTails == {litHash, litGh}

\* the first match of a family of attempts listed in the order the engine
\* tries them (a function on a set of integers)
FirstOf(ms) ==
    LET I == {i \in DOMAIN ms : ms[i] # NoMatch}
    IN IF I = {} THEN NoMatch ELSE ms[Min(I)]

\* every end of a match of [\w\-\.]+ that starts at p
SegEnds(s, p) ==
    {e \in (p + 1)..(Len(s) + 1) : \A i \in p..(e - 1) : s[i] \in SlugSet}

\* \d+ without the lookahead after it
NumberEnds_NoLookahead(s, p) ==
    {e \in (p + 1)..(Len(s) + 1) : \A i \in p..(e - 1) : s[i] \in DigitSet}

\* every end of a match of \d+ (?!\w) that starts at p
NumberEnds(s, p) ==
    {e \in (p + 1)..(Len(s) + 1) :
        /\ \A i \in p..(e - 1) : s[i] \in DigitSet
        /\ NotWordAt(s, e)}

\* the delimiter as (?:\ |\t|:)+ : any number of colons
DelimEnds_AnyColons(s, p) ==
    {e \in (p + 1)..(Len(s) + 1) : \A i \in p..(e - 1) : s[i] \in BlankSet \cup {":"}}

\* every end of a match of (?:\ |\t)* (?:\ |\t|:) (?:\ |\t)* that starts at p
DelimEnds(s, p) ==
    {e \in (p + 1)..(Len(s) + 1) :
        \E m \in p..(e - 1) :
            /\ s[m] \in BlankSet \cup {":"}
            /\ \A i \in p..(e - 1) : i # m => s[i] \in BlankSet}

\* the end of the literal lit matched at p: a set with at most one member
AfterLit(s, p, lit) == IF LitAt(s, p, lit) THEN {p + Len(lit)} ELSE {}

\* every match of [\w\-\.]+/[\w\-\.]+ that starts at p
SlugEnds(s, p) ==
    UNION {{[seg1 |-> e1, seg2 |-> e2] : e2 \in SegEnds(s, e1 + 1)} :
             e1 \in {e \in SegEnds(s, p) : e <= Len(s) /\ s[e] = "/"}}

\* the candidate a greedy engine tries first: longest first segment, then
\* longest second segment, then longest digit run
Greedy(C) ==
    CHOOSE m \in C : \A n \in C :
        \/ m.seg1 > n.seg1
        \/ m.seg1 = n.seg1 /\ m.seg2 > n.seg2
        \/ m.seg1 = n.seg1 /\ m.seg2 = n.seg2 /\ m.end >= n.end

\* the groups of the match with the slug group left out
RefMatch_NoSlug(s, C) ==
    IF C = {} THEN NoMatch
    ELSE LET m == Greedy(C)
         IN [slug |-> None,
             issue_number |-> SubSeq(s, m.num, m.end - 1),
             end |-> m.end]

\* the groups of the match chosen among the candidates C
RefMatch(s, C) ==
    IF C = {} THEN NoMatch
    ELSE LET m == Greedy(C)
         IN [slug |-> IF m.slug = 0 THEN None ELSE SubSeq(s, m.slug, m.seg2 - 1),
             issue_number |-> SubSeq(s, m.num, m.end - 1),
             end |-> m.end]

\* the number after one of the literals of tails at p, g telling where the slug is
NumberAfter(s, p, tails, g) ==
    UNION {{[slug |-> g.slug, seg1 |-> g.seg1, seg2 |-> g.seg2, num |-> n, end |-> e] :
              e \in NumberEnds(s, n)} :
             n \in UNION {AfterLit(s, p, lit) : lit \in tails}}

\* (?P<slug>[\w\-\.]+/[\w\-\.]+) then one of tails then (?P<issue_number>\d+) (?!\w),
\* with the slug starting at p
SlugRefAt(s, p, tails) ==
    RefMatch(s, UNION {NumberAfter(s, g.seg2, tails,
                                   [slug |-> p, seg1 |-> g.seg1, seg2 |-> g.seg2]) :
                         g \in SlugEnds(s, p)})

\* (?:\#|gh-) (?P<issue_number>\d+) (?!\w) at p: the slug group takes no part
BareRefAt(s, p) ==
    RefMatch(s, NumberAfter(s, p, AutoTails, [slug |-> 0, seg1 |-> 0, seg2 |-> 0]))

\* the issue prefix and number of _AUTO_REF_PATTERN at p, in the order of the
\* pattern: the URL form with and then without the domain, then the
\* autolinked form with and then without the repo name
PrefixedRefAt(s, p) ==
    LET alts == <<[on |-> LitAt(s, p, litHttps), at |-> p + Len(litHttps), tails |-> UrlTails],
                  [on |-> TRUE, at |-> p, tails |-> UrlTails],
                  [on |-> TRUE, at |-> p, tails |-> AutoTails]>>
    IN FirstOf([i \in DOMAIN alts |->
                   IF alts[i].on THEN SlugRefAt(s, alts[i].at, alts[i].tails) ELSE NoMatch]
               \o <<BareRefAt(s, p)>>)

\* _KEYWORD_PATTERN at p: the keywords that match there (by position in the
\* alternation) with each end of the delimiter after them
KeywordEnds(s, p) ==
    UNION {{[idx |-> i, from |-> p, to |-> p + Len(KeywordOrder[i]), end |-> d] :
              d \in UNION {DelimEnds(s, k) : k \in AfterLit(s, p, KeywordOrder[i])}} :
             i \in DOMAIN KeywordOrder}

\* the member of a set of keyword candidates that the engine reaches first:
\* alternation order, then the greedy delimiter
FirstKeyword(K) ==
    CHOOSE k \in K : \A j \in K : k.idx < j.idx \/ (k.idx = j.idx /\ k.end >= j.end)

\* the groups of an _AUTO_REF_PATTERN match: refs maps each way of starting
\* (a keyword candidate, or the record without) to what follows it
PickAutoRef(s, refs, without) ==
    LET K == {k \in DOMAIN refs : k # without /\ refs[k] # NoMatch}
        k == IF K # {} THEN FirstKeyword(K) ELSE without
    IN IF refs[k] = NoMatch THEN NoMatch
       ELSE [kind |-> "ref",
             keyword_name |-> IF k = without THEN None ELSE SubSeq(s, k.from, k.to - 1),
             slug |-> refs[k].slug,
             issue_number |-> refs[k].issue_number,
             end |-> refs[k].end]

\* _AUTO_REF_PATTERN at p: with the optional keyword, then without it
AutoRefAt(s, p) ==
    LET without == [idx |-> 0, from |-> p, to |-> p, end |-> p]
    IN PickAutoRef(s, [k \in KeywordEnds(s, p) \cup {without} |-> PrefixedRefAt(s, k.end)],
                   without)

\* _MENTION_PATTERN at p
MentionOf(s, p, E) ==
    IF E = {} THEN NoMatch
    ELSE [kind |-> "mention", mention |-> SubSeq(s, p + 1, Max(E) - 1), end |-> Max(E)]

MentionAt(s, p) == MentionOf(s, p, UNION {SegEnds(s, a) : a \in AfterLit(s, p, <<"@">>)})

\* ^ without regex.MULTILINE
LineStart_NoMultiline(s, p) == p = 1

\* ^ under regex.MULTILINE
LineStart(s, p) == p = 1 \/ (p - 1 <= Len(s) /\ s[p - 1] = NL)

\* ^ without regex.MULTILINE
StringStart(s, p) == p = 1

\* $ without regex.MULTILINE: the end of the string, or before a newline
\* that ends it
StringEnd(s, p) == p = Len(s) + 1 \/ (p = Len(s) /\ s[p] = NL)

\* TEXT_RE without its boundary: where the rest starts when any character,
\* or none, may come first
BoundaryStarts_Anywhere(s, p, atLineStart) ==
    (IF p <= Len(s) THEN <<p + 1>> ELSE <<>>) \o <<p>>

\* (?:[^\w\n\v\r]|^) at p: where the rest of the pattern starts, in the
\* order the engine tries (after one consumed character, then at p itself)
BoundaryStarts(s, p, atLineStart) ==
    (IF p <= Len(s) /\ IsBoundaryChar(s[p]) THEN <<p + 1>> ELSE <<>>)
    \o (IF atLineStart THEN <<p>> ELSE <<>>)

\* TEXT_RE with the match starting at p
TextMatchAt(s, p) ==
    LET starts == BoundaryStarts(s, p, LineStart(s, p))
    IN FirstOf([i \in DOMAIN starts |->
                   FirstOf(<<AutoRefAt(s, starts[i]), MentionAt(s, starts[i])>>)])

\* one step of TEXT_RE.finditer(text): the leftmost match at or after pos
TextSearch(s, pos) == FirstOf([p \in pos..(Len(s) + 1) |-> TextMatchAt(s, p)])

\* KEYWORD_RE with the match starting at p
KeywordMatchOf(s, K) ==
    IF K = {} THEN NoMatch
    ELSE [keyword_name |-> SubSeq(s, FirstKeyword(K).from, FirstKeyword(K).to - 1)]

KeywordMatchAt(s, p) ==
    LET starts == BoundaryStarts(s, p, StringStart(s, p))
    IN FirstOf([i \in DOMAIN starts |->
                   KeywordMatchOf(s, {k \in KeywordEnds(s, starts[i]) : StringEnd(s, k.end)})])

\* KEYWORD_RE.search(text)
KeywordSearch(s) == FirstOf([p \in 1..(Len(s) + 1) |-> KeywordMatchAt(s, p)])

\* ISSUE_URL_RE without its ^ and used with search: the first place of the
\* target where an issue URL is written
IssueUrlMatch_Search(s) ==
    FirstOf([p \in 1..(Len(s) + 1) |->
                IF LitAt(s, p, litHttps)
                THEN SlugRefAt(s, p + Len(litHttps), UrlTails)
                ELSE NoMatch])

\* ISSUE_URL_RE.match(link)
IssueUrlMatch(s) ==
    IF LitAt(s, 1, litHttps) THEN SlugRefAt(s, 1 + Len(litHttps), UrlTails) ELSE NoMatch

(***************************************************************************)
(* wrappers.py                                                             *)
(***************************************************************************)
ParsedIssueRef(slug, issue_number) ==
    [kind |-> "ref", slug |-> slug, issue_number |-> issue_number]

ParsedIssueAction(slug, issue_number, action) ==
    [kind |-> "action", slug |-> slug, issue_number |-> issue_number, action |-> action]

ParsedIssueMention(username) ==
    [kind |-> "mention", username |-> username]

\* ParsedIssue without __post_init__: actions stays the empty dict
ParsedIssue_NoPostInit(action_names) ==
    [actions |-> [a \in {} |-> <<>>],
     refs |-> <<>>,
     refs_and_actions |-> <<>>,
     mentions |-> <<>>,
     fragments |-> <<>>]

\* ParsedIssue whose list fields are not made anew by a default_factory:
\* they start with what the lists of the last ParsedIssue constructed hold
ParsedIssue_KeptLists(action_names) ==
    [actions |-> [a \in action_names |-> <<>>],
     refs |-> IF heap = <<>> THEN <<>> ELSE heap[Len(heap)].refs,
     refs_and_actions |-> IF heap = <<>> THEN <<>> ELSE heap[Len(heap)].refs_and_actions,
     mentions |-> IF heap = <<>> THEN <<>> ELSE heap[Len(heap)].mentions,
     fragments |-> IF heap = <<>> THEN <<>> ELSE heap[Len(heap)].fragments]

\* ParsedIssue(action_names): the default fields and __post_init__
ParsedIssue(action_names) ==
    [actions |-> [a \in action_names |-> <<>>],
     refs |-> <<>>,
     refs_and_actions |-> <<>>,
     mentions |-> <<>>,
     fragments |-> <<>>]

(***************************************************************************)
(* The markdown node trees given to the walker.  A node has a type, a text *)
(* (None when the key is absent), a list of children (empty when the key   *)
(* is absent) and, for a link, its target.                                 *)
(***************************************************************************)
Node(label, children) ==
    [type |-> label.type, text |-> label.text, link |-> label.link, children |-> children]

\* a text node and a link node without a label
TextNode(text) == [type |-> "text", text |-> text, link |-> None, children |-> <<>>]
LinkNode(link) == [type |-> "link", text |-> None, link |-> link, children |-> <<>>]

\* the tuple of opaque types with its last member forgotten
OpaqueTypes_NoBlockHtml == {"codespan", "inline_html", "block_code"}

\* the node types _parse_children skips
OpaqueTypes == {"codespan", "inline_html", "block_code", "block_html"}

\* "@alice fixes #9"
txtMentionFixes == <<"@","a","l","i","c","e"," ">> \o kwFixes \o <<" ","#","9">>
\* "See #123"
txtSee == <<"S","e","e"," ","#","1","2","3">>
\* "Fixes #123"
txtFixes == <<"F">> \o Tail(kwFixes) \o <<" ","#","1","2","3">>
\* "Fixes: "
txtFixesColon == <<"F">> \o Tail(kwFixes) \o <<":"," ">>
\* "https://github.com/o/r/issues/7"
urlIssue == litHttps \o <<"o","/","r">> \o litIssues \o <<"7">>
\* "https://example.com/"
urlOther == <<"h","t","t","p","s",":","/","/","e","x","a","m","p","l","e",".","c","o","m","/">>

\* "Closes other/repo#45"
txtClosesSlug ==
    <<"C">> \o Tail(kwCloses) \o <<" ","o","t","h","e","r","/","r","e","p","o","#","4","5">>

NodeTexts == {txtMentionFixes, txtSee, txtFixes, txtFixesColon, txtClosesSlug}

\* what a node can be, its children apart
Labels ==
    {[type |-> "text", text |-> t, link |-> None] : t \in NodeTexts}
    \cup {[type |-> "paragraph", text |-> None, link |-> None]}
    \cup {[type |-> "heading", text |-> txtSee, link |-> None]}
    \cup {[type |-> ty, text |-> txtFixes, link |-> None] :
             ty \in {"codespan", "inline_html", "block_code", "block_html"}}
    \cup {[type |-> "link", text |-> None, link |-> u] : u \in {urlIssue, urlOther}}

\* the most nodes in one tree
MaxNodes == 2

\* the sibling lists that hold n nodes in all, descendants included
RECURSIVE Forest(_)
Forest(n) ==
    IF n = 0 THEN {<<>>}
    ELSE UNION {{<<Node(l, kids)>> \o rest :
                   l \in Labels, kids \in Forest(k), rest \in Forest(n - 1 - k)} :
                  k \in 0..(n - 1)}

Trees(most) == UNION {Forest(n) : n \in 0..most}

(***************************************************************************)
(* _parser.py                                                              *)
(***************************************************************************)
\* the locals of the running call
locals == <<pc, tree, issue, stack, scan>>

\* the state of the issue parser and the state of the rate limiter
parser == <<pc, tree, issue, stack, scan, heap, ActionTable, parked>>
limiter == <<gh_lock, gh_lock_owner, gh_lock_should_sleep, timers, task, asked>>

vars == <<pc, tree, issue, stack, scan, heap, ActionTable, parked,
          gh_lock, gh_lock_owner, gh_lock_should_sleep, timers, task, asked>>

\* the reference held before the ParsedIssue is constructed
NoIssue == 0

\* the ParsedIssue the running call refers to
ThisIssue == heap[issue]

\* the heap after the running call's ParsedIssue has become obj
Mutated(obj) == [heap EXCEPT ![issue] = obj]
NoNode == [type |-> "None"]
NoScan == [kind |-> "None"]

\* Python truth of node.get("text"): the key is present and the string not empty
Truthy(text) == text # None /\ text # <<>>
\* Python truth of node.get("children"): the key is present and the list not empty
HasChildren(node) == node.children # <<>>

Top == stack[Len(stack)]
\* nodes[idx] of the running frame
CurrentNode == Top.nodes[Top.idx + 1]
InLoop == pc = "walk" /\ Top.idx < Len(Top.nodes)

SetTop(f) == [stack EXCEPT ![Len(stack)] = f]
\* the loop of the running frame goes on to its next node
NextNode == SetTop([nodes |-> Top.nodes, idx |-> Top.idx + 1, at |-> "node"])

\* previous_node=nodes[idx - 1] without a test of idx: at idx 0 Python's
\* index -1 is the last node of the list
PreviousNode_NoGuard(nodes, idx) == nodes[IF idx # 0 THEN idx ELSE Len(nodes)]

\* the previous_node argument of the call to _parse_link
PreviousNode(nodes, idx) == IF idx # 0 THEN nodes[idx + 1] ELSE NoNode

\* KEYWORDS[keyword_name.lower()] does not raise KeyError
KeywordKnown(keyword_name) ==
    keyword_name = None \/ Lower(keyword_name) \in DOMAIN ActionTable.KEYWORDS

\* _append_parsed_ref that files an action under refs_and_actions twice
AppendParsedRef_Twice(iss, match, keyword_name) ==
    LET ref == IF keyword_name = None
               THEN ParsedIssueRef(match.slug, ToInt(match.issue_number))
               ELSE ParsedIssueAction(match.slug, ToInt(match.issue_number),
                                      KEYWORDS[Lower(keyword_name)])
    IN [actions |-> IF keyword_name = None THEN iss.actions
                    ELSE [iss.actions EXCEPT ![ref.action] = Append(@, ref)],
        refs |-> IF keyword_name = None THEN Append(iss.refs, ref) ELSE iss.refs,
        refs_and_actions |-> IF keyword_name = None THEN Append(iss.refs_and_actions, ref)
                             ELSE Append(Append(iss.refs_and_actions, ref), ref),
        mentions |-> iss.mentions,
        fragments |-> Append(iss.fragments, ref)]

\* _append_parsed_ref that files an action under refs as well
AppendParsedRef_AlsoRefs(iss, match, keyword_name) ==
    LET ref == IF keyword_name = None
               THEN ParsedIssueRef(match.slug, ToInt(match.issue_number))
               ELSE ParsedIssueAction(match.slug, ToInt(match.issue_number),
                                      KEYWORDS[Lower(keyword_name)])
    IN [actions |-> IF keyword_name = None THEN iss.actions
                    ELSE [iss.actions EXCEPT ![ref.action] = Append(@, ref)],
        refs |-> Append(iss.refs, ref),
        refs_and_actions |-> Append(iss.refs_and_actions, ref),
        mentions |-> iss.mentions,
        fragments |-> Append(iss.fragments, ref)]

\* _append_parsed_ref that leaves a plain reference out of refs
AppendParsedRef_NoRefs(iss, match, keyword_name) ==
    LET ref == IF keyword_name = None
               THEN ParsedIssueRef(match.slug, ToInt(match.issue_number))
               ELSE ParsedIssueAction(match.slug, ToInt(match.issue_number),
                                      KEYWORDS[Lower(keyword_name)])
    IN [actions |-> IF keyword_name = None THEN iss.actions
                    ELSE [iss.actions EXCEPT ![ref.action] = Append(@, ref)],
        refs |-> iss.refs,
        refs_and_actions |-> Append(iss.refs_and_actions, ref),
        mentions |-> iss.mentions,
        fragments |-> Append(iss.fragments, ref)]

\* _append_parsed_ref that puts the new entry at the head of refs_and_actions
AppendParsedRef_Head(iss, match, keyword_name) ==
    LET ref == IF keyword_name = None
               THEN ParsedIssueRef(match.slug, ToInt(match.issue_number))
               ELSE ParsedIssueAction(match.slug, ToInt(match.issue_number),
                                      KEYWORDS[Lower(keyword_name)])
    IN [actions |-> IF keyword_name = None THEN iss.actions
                    ELSE [iss.actions EXCEPT ![ref.action] = Append(@, ref)],
        refs |-> IF keyword_name = None THEN Append(iss.refs, ref) ELSE iss.refs,
        refs_and_actions |-> <<ref>> \o iss.refs_and_actions,
        mentions |-> iss.mentions,
        fragments |-> Append(iss.fragments, ref)]

\* _append_parsed_ref with a keyword that stays in force: a reference
\* without keyword that comes after an Action is filed under that action
AppendParsedRef_Sticky(iss, match, keyword_name) ==
    LET issue_number == ToInt(match.issue_number)
        slug == match.slug
        carried == /\ keyword_name = None
                   /\ iss.refs_and_actions # <<>>
                   /\ iss.refs_and_actions[Len(iss.refs_and_actions)].kind = "action"
        action == IF carried THEN iss.refs_and_actions[Len(iss.refs_and_actions)].action
                  ELSE ActionTable.KEYWORDS[Lower(keyword_name)]
        plain == keyword_name = None /\ ~carried
        ref == IF plain
               THEN ParsedIssueRef(slug, issue_number)
               ELSE ParsedIssueAction(slug, issue_number, action)
    IN [actions |-> IF plain THEN iss.actions
                    ELSE [iss.actions EXCEPT ![action] = Append(@, ref)],
        refs |-> IF plain THEN Append(iss.refs, ref) ELSE iss.refs,
        refs_and_actions |-> Append(iss.refs_and_actions, ref),
        mentions |-> iss.mentions,
        fragments |-> Append(iss.fragments, ref)]

\* _append_parsed_ref that files a plain Reference under the action of the
\* keyword: ref is built before the keyword is looked at
AppendParsedRef_PlainUnderAction(iss, match, keyword_name) ==
    LET ref == ParsedIssueRef(match.slug, ToInt(match.issue_number))
    IN [actions |-> IF keyword_name = None THEN iss.actions
                    ELSE [iss.actions EXCEPT ![ActionTable.KEYWORDS[Lower(keyword_name)]]
                                                 = Append(@, ref)],
        refs |-> IF keyword_name = None THEN Append(iss.refs, ref) ELSE iss.refs,
        refs_and_actions |-> Append(iss.refs_and_actions, ref),
        mentions |-> iss.mentions,
        fragments |-> Append(iss.fragments, ref)]

\* _append_parsed_ref
AppendParsedRef(iss, match, keyword_name) ==
    LET issue_number == ToInt(match.issue_number)
        slug == match.slug
        action == ActionTable.KEYWORDS[Lower(keyword_name)]
        ref == IF keyword_name = None
               THEN ParsedIssueRef(slug, issue_number)
               ELSE ParsedIssueAction(slug, issue_number, action)
    IN [actions |-> IF keyword_name = None THEN iss.actions
                    ELSE [iss.actions EXCEPT ![action] = Append(@, ref)],
        refs |-> IF keyword_name = None THEN Append(iss.refs, ref) ELSE iss.refs,
        refs_and_actions |-> Append(iss.refs_and_actions, ref),
        mentions |-> iss.mentions,
        fragments |-> Append(iss.fragments, ref)]

\* the mention branch with the fragment put at the head of fragments
AppendMention_Head(iss, username) ==
    [iss EXCEPT !.fragments = <<ParsedIssueMention(username)>> \o @,
                !.mentions = Append(@, ParsedIssueMention(username))]

\* the mention branch without the append to fragments
AppendMention_NoFragment(iss, username) ==
    [iss EXCEPT !.mentions = Append(@, ParsedIssueMention(username))]

\* the mention branch with the fragment put under refs_and_actions as well
AppendMention_AlsoRefs(iss, username) ==
    [iss EXCEPT !.fragments = Append(@, ParsedIssueMention(username)),
                !.mentions = Append(@, ParsedIssueMention(username)),
                !.refs_and_actions = Append(@, ParsedIssueMention(username))]

\* the body of the loop of _parse_text for a mention
AppendMention(iss, username) ==
    LET fragment == ParsedIssueMention(username)
    IN [iss EXCEPT !.fragments = Append(@, fragment),
                   !.mentions = Append(@, fragment)]

\* the keyword_name that _parse_link passes on
LinkKeyword(previous_node) ==
    IF previous_node # NoNode /\ previous_node.type = "text"
    THEN LET keyword_match == KeywordSearch(previous_node.text)
         IN IF keyword_match = NoMatch THEN None ELSE keyword_match.keyword_name
    ELSE None

\* one ParsedIssue object kept by the module and used by every call
NewObject_Singleton(objects) == 1

\* the reference of a newly constructed object
NewObject(objects) == Len(objects) + 1

\* parse_issue_body, up to the call of _parse_children, for a body whose
\* markdown tree is one of bodies
ParseIssueBodyOf(bodies) ==
    /\ pc = "idle"
    /\ \E body \in bodies :
        /\ tree' = body
        /\ stack' = <<[nodes |-> body, idx |-> 0, at |-> "node"]>>
    /\ issue' = NewObject(heap)
    /\ heap' = [o \in DOMAIN heap \cup {NewObject(heap)} |->
                  IF o = NewObject(heap) THEN ParsedIssue(DOMAIN ActionTable.Actions)
                  ELSE heap[o]]
    /\ scan' = NoScan
    /\ pc' = "walk"
    /\ UNCHANGED <<ActionTable, parked, limiter>>

ParseIssueBody == ParseIssueBodyOf(Trees(MaxNodes))

\* _parse_children: the loop is over; the last return ends parse_issue_body
ParseChildrenReturn ==
    /\ pc = "walk"
    /\ Top.idx = Len(Top.nodes)
    /\ stack' = SubSeq(stack, 1, Len(stack) - 1)
    /\ pc' = IF Len(stack) = 1 THEN "done" ELSE "walk"
    /\ UNCHANGED <<tree, issue, scan, heap, ActionTable, parked, limiter>>

\* _parse_children: a node of an opaque type is skipped
SkipOpaque ==
    /\ InLoop
    /\ CurrentNode.type \in OpaqueTypes
    /\ stack' = NextNode
    /\ UNCHANGED <<pc, tree, issue, scan, heap, ActionTable, parked, limiter>>

\* the link branch without its continue: the label is scanned and recursed into
ParseLink_IntoLabel ==
    /\ InLoop
    /\ CurrentNode.type = "link"
    /\ Top.at = "node"
    /\ LET match == IssueUrlMatch(CurrentNode.link)
       IN heap' = IF match = NoMatch THEN heap
                  ELSE Mutated(AppendParsedRef(ThisIssue, match, None))
    /\ stack' = SetTop([Top EXCEPT !.at = "children"])
    /\ UNCHANGED <<pc, tree, issue, scan, ActionTable, parked, limiter>>

\* the link branch without the return of _parse_link on a target that is not
\* an issue URL: match.group on None raises
ParseLink_NoEarlyReturn ==
    /\ InLoop
    /\ CurrentNode.type = "link"
    /\ LET match == IssueUrlMatch(CurrentNode.link)
           keyword_name == LinkKeyword(PreviousNode(Top.nodes, Top.idx))
       IN IF match # NoMatch /\ KeywordKnown(keyword_name)
          THEN /\ heap' = Mutated(AppendParsedRef(ThisIssue, match, keyword_name))
               /\ stack' = NextNode
               /\ UNCHANGED pc
          ELSE /\ pc' = "raised"
               /\ UNCHANGED <<heap, stack>>
    /\ UNCHANGED <<tree, issue, scan, ActionTable, parked, limiter>>

\* _parse_children on a link node: the whole of _parse_link
ParseLink ==
    /\ InLoop
    /\ CurrentNode.type = "link"
    /\ LET match == IssueUrlMatch(CurrentNode.link)
           keyword_name == LinkKeyword(PreviousNode(Top.nodes, Top.idx))
       IN IF match = NoMatch
          THEN /\ stack' = NextNode
               /\ UNCHANGED <<pc, heap>>
          ELSE IF KeywordKnown(keyword_name)
          THEN /\ heap' = Mutated(AppendParsedRef(ThisIssue, match, keyword_name))
               /\ stack' = NextNode
               /\ UNCHANGED pc
          ELSE /\ pc' = "raised"
               /\ UNCHANGED <<heap, stack>>
    /\ UNCHANGED <<tree, issue, scan, ActionTable, parked, limiter>>

\* the iterator TEXT_RE.finditer(text) advanced to its next match from pos:
\* match is the loop variable of _parse_text, NoMatch when the loop is over
Finditer(text, pos) == [text |-> text, pos |-> pos, match |-> TextSearch(text, pos)]

\* _parse_children on any other node: the test of its text and, when it has
\* one, the call of _parse_text up to the first match of the iterator
ParseTextStart ==
    /\ InLoop
    /\ CurrentNode.type \notin OpaqueTypes \cup {"link"}
    /\ Top.at = "node"
    /\ IF Truthy(CurrentNode.text)
       THEN /\ scan' = Finditer(CurrentNode.text, 1)
            /\ stack' = SetTop([Top EXCEPT !.at = "text"])
       ELSE /\ scan' = NoScan
            /\ stack' = SetTop([Top EXCEPT !.at = "children"])
    /\ UNCHANGED <<pc, tree, issue, heap, ActionTable, parked, limiter>>

\* _parse_text: the loop body for a match that is a mention
ParseTextMention ==
    /\ InLoop
    /\ Top.at = "text"
    /\ scan.match # NoMatch
    /\ scan.match.kind = "mention"
    /\ heap' = Mutated(AppendMention(ThisIssue, scan.match.mention))
    /\ scan' = Finditer(scan.text, scan.match.end)
    /\ UNCHANGED <<pc, tree, issue, stack, ActionTable, parked, limiter>>

\* _parse_text: the loop body for a match that is a reference
ParseTextRef ==
    /\ InLoop
    /\ Top.at = "text"
    /\ scan.match # NoMatch
    /\ scan.match.kind = "ref"
    /\ IF KeywordKnown(scan.match.keyword_name)
       THEN /\ heap' = Mutated(AppendParsedRef(ThisIssue, scan.match, scan.match.keyword_name))
            /\ scan' = Finditer(scan.text, scan.match.end)
            /\ UNCHANGED pc
       ELSE /\ pc' = "raised"
            /\ UNCHANGED <<heap, scan>>
    /\ UNCHANGED <<tree, issue, stack, ActionTable, parked, limiter>>

\* _parse_text: the iterator is exhausted
ParseTextEnd ==
    /\ InLoop
    /\ Top.at = "text"
    /\ scan.match = NoMatch
    /\ scan' = NoScan
    /\ stack' = SetTop([Top EXCEPT !.at = "children"])
    /\ UNCHANGED <<pc, tree, issue, heap, ActionTable, parked, limiter>>

\* _parse_children: the test of the node's children and the recursive call
ParseChildrenRecurse ==
    /\ InLoop
    /\ Top.at = "children"
    /\ stack' = IF HasChildren(CurrentNode)
                THEN Append(NextNode, [nodes |-> CurrentNode.children, idx |-> 0, at |-> "node"])
                ELSE NextNode
    /\ UNCHANGED <<pc, tree, issue, scan, heap, ActionTable, parked, limiter>>

(***************************************************************************)
(* utils.py: github_rate_limiter, the context manager around every request *)
(* of GitHubAPI._make_request.  A task is an asyncio task of the one event *)
(* loop: a step is what a task runs between two awaits.                    *)
(***************************************************************************)
\* the most tasks that make requests, and the deepest nesting of entries
MaxTasks == 3
MaxDepth == 2

Tasks == 1..MaxTasks
\* _gh_lock_owner = None
NoTask == 0

\* a task that is in no entry of the limiter and waits for nothing
Outside == [at |-> "run", frames |-> <<>>, should_sleep |-> FALSE]

\* the task t has entered the limiter and not left it: it is at a yield
Inside(t) == task[t].frames # <<>>

\* the frames of the task after one more entry has reached its yield
Entered(t, branch) == [at |-> "run", frames |-> Append(task[t].frames, branch),
                       should_sleep |-> FALSE]

\* the lines after `await _gh_lock.acquire()` up to the yield
Acquired(t, should_sleep) ==
    /\ gh_lock_should_sleep' = (gh_lock_should_sleep \/ should_sleep)
    /\ gh_lock_owner' = t
    /\ task' = [task EXCEPT ![t] = Entered(t, "owner")]
    /\ asked' = {should_sleep}

\* GitHubAPI._make_request enters github_rate_limiter(should_sleep=...): the
\* owner re-enters, another task takes the free lock or waits for it
RateLimiterEnter(t, should_sleep) ==
    /\ task[t].at = "run"
    /\ Len(task[t].frames) < MaxDepth
    /\ IF gh_lock_owner = t
       THEN /\ gh_lock_should_sleep' = (gh_lock_should_sleep \/ should_sleep)
            /\ task' = [task EXCEPT ![t] = Entered(t, "reentered")]
            /\ asked' = asked \cup {should_sleep}
            /\ UNCHANGED <<gh_lock, gh_lock_owner>>
       ELSE IF ~gh_lock.locked /\ gh_lock.waiters = <<>>
       THEN /\ gh_lock' = [gh_lock EXCEPT !.locked = TRUE]
            /\ Acquired(t, should_sleep)
       ELSE /\ gh_lock' = [gh_lock EXCEPT !.waiters = Append(@, t)]
            /\ task' = [task EXCEPT ![t] = [@ EXCEPT !.at = "acquire",
                                                     !.should_sleep = should_sleep]]
            /\ UNCHANGED <<gh_lock_owner, gh_lock_should_sleep, asked>>
    /\ UNCHANGED <<timers, parser>>

\* the first waiter of the released lock resumes in _gh_lock.acquire()
WakeUp(t) ==
    /\ task[t].at = "acquire"
    /\ ~gh_lock.locked
    /\ gh_lock.waiters # <<>>
    /\ Head(gh_lock.waiters) = t
    /\ gh_lock' = [locked |-> TRUE, waiters |-> Tail(gh_lock.waiters)]
    /\ Acquired(t, task[t].should_sleep)
    /\ UNCHANGED <<timers, parser>>

\* a task waiting in _gh_lock.acquire() is cancelled: the CancelledError
\* leaves github_rate_limiter before its try
CancelAcquire(t) ==
    /\ task[t].at = "acquire"
    /\ gh_lock' = [gh_lock EXCEPT !.waiters = SelectSeq(@, LAMBDA w : w # t)]
    /\ task' = [task EXCEPT ![t] = [@ EXCEPT !.at = "run", !.should_sleep = FALSE]]
    /\ UNCHANGED <<gh_lock_owner, gh_lock_should_sleep, timers, asked, parser>>

\* the finally clause with the lock released at once whatever was asked
RateLimiterExit_NoDelay(t) ==
    /\ task[t].at = "run"
    /\ Inside(t)
    /\ task' = [task EXCEPT ![t].frames = SubSeq(@, 1, Len(@) - 1)]
    /\ IF task[t].frames[Len(task[t].frames)] = "reentered"
       THEN UNCHANGED <<gh_lock, gh_lock_owner, gh_lock_should_sleep, timers, asked>>
       ELSE /\ gh_lock_owner' = NoTask
            /\ gh_lock_should_sleep' = FALSE
            /\ asked' = {}
            /\ gh_lock' = [gh_lock EXCEPT !.locked = FALSE]
            /\ UNCHANGED timers
    /\ UNCHANGED parser

\* the body of the innermost entry of t ends, by return or by an exception:
\* a re-entered entry just returns, the owner's entry runs its finally clause
RateLimiterExit(t) ==
    /\ task[t].at = "run"
    /\ Inside(t)
    /\ task' = [task EXCEPT ![t].frames = SubSeq(@, 1, Len(@) - 1)]
    /\ IF task[t].frames[Len(task[t].frames)] = "reentered"
       THEN UNCHANGED <<gh_lock, gh_lock_owner, gh_lock_should_sleep, timers, asked>>
       ELSE /\ gh_lock_owner' = NoTask
            /\ gh_lock_should_sleep' = FALSE
            /\ asked' = {}
            /\ IF gh_lock_should_sleep
               THEN /\ timers' = timers + 1
                    /\ UNCHANGED gh_lock
               ELSE /\ gh_lock' = [gh_lock EXCEPT !.locked = FALSE]
                    /\ UNCHANGED timers
    /\ UNCHANGED parser

\* the event loop runs the _gh_lock.release that call_later(1, ...) scheduled
ReleaseLater ==
    /\ timers > 0
    /\ timers' = timers - 1
    /\ gh_lock' = [gh_lock EXCEPT !.locked = FALSE]
    /\ UNCHANGED <<gh_lock_owner, gh_lock_should_sleep, task, asked, parser>>

(***************************************************************************)
(* The state after import, and the calls of parse_issue_body               *)
(***************************************************************************)
Init ==
    /\ pc = "idle"
    /\ tree = <<>>
    /\ issue = NoIssue
    /\ stack = <<>>
    /\ scan = NoScan
    /\ heap = <<>>
    /\ ActionTable = [Actions |-> Actions, KEYWORDS |-> KEYWORDS]
    /\ parked = <<>>
    /\ gh_lock = [locked |-> FALSE, waiters |-> <<>>]
    /\ gh_lock_owner = NoTask
    /\ gh_lock_should_sleep = FALSE
    /\ timers = 0
    /\ task = [t \in Tasks |-> Outside]
    /\ asked = {}

Next ==
    \/ ParseIssueBody
    \/ ParseChildrenReturn
    \/ SkipOpaque
    \/ ParseLink
    \/ ParseTextStart
    \/ ParseTextMention
    \/ ParseTextRef
    \/ ParseTextEnd
    \/ ParseChildrenRecurse

Spec == Init /\ [][Next]_vars

(***************************************************************************)
(* One parse of a body out of a list of cases: the examples of the         *)
(* grammar, every short text over a small alphabet, every letter-case      *)
(* variant of every keyword.                                               *)
(***************************************************************************)
\* str.upper() of one ASCII character
UpperChar(c) ==
    IF c \in Range(LowerLetters)
    THEN UpperLetters[CHOOSE i \in DOMAIN LowerLetters : LowerLetters[i] = c]
    ELSE c

\* every way of writing the letters of s in upper or lower case
RECURSIVE CaseVariants(_)
CaseVariants(s) ==
    IF s = <<>> THEN {<<>>}
    ELSE {<<c>> \o rest : c \in {Head(s), UpperChar(Head(s))}, rest \in CaseVariants(Tail(s))}

\* the longest generated text
MaxLen == 5

\* the characters of the generated texts
Alphabet == {"#", "1", "a", ".", "/"}

\* every text over Alphabet of n characters
RECURSIVE TextsOfLen(_)
TextsOfLen(n) ==
    IF n = 0 THEN {<<>>}
    ELSE {Append(t, c) : t \in TextsOfLen(n - 1), c \in Alphabet}

GenTexts(longest) == UNION {TextsOfLen(n) : n \in 0..longest}

\* " #1"
txtRefOne == <<" ","#","1">>
\* "#123abc" and "#123."
txtHashWord == <<"#","1","2","3","a","b","c">>
txtHashDot == <<"#","1","2","3",".">>
\* "#123abc #123."
txtHashBoth == txtHashWord \o <<" ">> \o txtHashDot
\* "https://github.com/o/r/issues/7a" and "https://github.com/o/r/issues/7."
urlIssueWord == urlIssue \o <<"a">>
urlIssueDot == urlIssue \o <<".">>
\* "#45"
txtHash45 == <<"#","4","5">>
\* "https://github.com/o/r/pull/7"
txtPullUrl == litHttps \o <<"o","/","r">> \o litPull \o <<"7">>
\* "o/r/issues/7"
txtShortUrl == <<"o","/","r">> \o litIssues \o <<"7">>
\* "clo\u017fe #1" and "Fixe\u017f: "
txtLongS == <<"c","l","o",LongS,"e"," ","#","1">>
txtLongSColon == <<"F","i","x","e",LongS,":"," ">>
\* "Fixes this, see "
txtFixesThis == <<"F">> \o Tail(kwFixes) \o <<" ","t","h","i","s",","," ","s","e","e"," ">>
\* "See above.\nFixes "
txtSeeAboveFixes ==
    <<"S","e","e"," ","a","b","o","v","e",".",NL,"F">> \o Tail(kwFixes) \o <<" ">>

\* the longest text between a keyword and a reference in the cases
MaxDelim == 3
\* the characters that text is made of
DelimAlphabet == {" ", TAB, ":", NL}
RECURSIVE DelimsOfLen(_)
DelimsOfLen(n) ==
    IF n = 0 THEN {<<>>}
    ELSE {<<c>> \o d : c \in DelimAlphabet, d \in DelimsOfLen(n - 1)}
Delims == UNION {DelimsOfLen(n) : n \in 0..MaxDelim}
\* "fixes", a text of Delims, "#1"
txtFixesThen(d) == kwFixes \o d \o <<"#","1">>

\* the characters of the texts that try the boundary before a match: the two
\* sigils, a digit, a letter, a space and a line break
LineAlphabet == {"#", "@", "1", "a", " ", NL}
RECURSIVE LineTextsOfLen(_)
LineTextsOfLen(n) ==
    IF n = 0 THEN {<<>>}
    ELSE {<<c>> \o t : c \in LineAlphabet, t \in LineTextsOfLen(n - 1)}
LineTexts(longest) == UNION {LineTextsOfLen(n) : n \in 1..longest}
\* "abc#12" and "user@host"
txtAbcHash12 == <<"a","b","c","#","1","2">>
txtUserAtHost == <<"u","s","e","r","@","h","o","s","t">>

\* "#1,#2" and "x", line break, "#1", line break, "@bob"
txtTwoComma == <<"#","1",",","#","2">>
txtThreeLines == <<"x",NL,"#","1",NL,"@","b","o","b">>

\* "@a-b.c_d"
txtMentionDots == <<"@","a","-","b",".","c","_","d">>

\* "prefixes #1"
txtPrefixes == <<"p","r","e">> \o kwFixes \o txtRefOne
\* every keyword right after a word character, then " #1"
txtsWordKeyword == {<<c>> \o k \o txtRefOne : c \in {"a", "1", "_"}, k \in KeywordSet}

\* "fixes #1", "fixes #1 and " and "fixes #1 and #2"
txtFixesOne == kwFixes \o txtRefOne
txtFixesOneAnd == txtFixesOne \o <<" ","a","n","d"," ">>
txtFixesOneAndTwo == txtFixesOneAnd \o <<"#","2">>
\* "#2"
txtHashTwo == <<"#","2">>

\* "#2 fixes #1 and #2"
txtTwoFixesOneAndTwo == txtHashTwo \o <<" ">> \o txtFixesOneAndTwo

\* the texts of the cases
CaseTexts(longest) ==
    GenTexts(longest)
    \cup {v \o txtRefOne : v \in UNION {CaseVariants(k) : k \in KeywordSet}}
    \cup {v \o <<"4","5">> : v \in CaseVariants(litGh)}
    \cup {txtHashWord, txtHashDot, txtHash45, txtClosesSlug, txtPullUrl, txtShortUrl,
          txtLongS, txtFixes, txtSee, txtHashBoth, txtMentionFixes}
    \cup {txtFixesThen(d) : d \in Delims}
    \cup LineTexts(longest)
    \cup {txtAbcHash12, txtUserAtHost, txtTwoComma, txtThreeLines, txtMentionDots}
    \cup txtsWordKeyword
    \cup {txtPrefixes, txtFixesOneAndTwo, txtTwoFixesOneAndTwo}

\* ".../issues/7/files" and ".../issues/7#issuecomment-1"
urlIssueFiles == urlIssue \o <<"/","f","i","l","e","s">>
urlIssueComment ==
    urlIssue \o <<"#","i","s","s","u","e","c","o","m","m","e","n","t","-","1">>
\* "see https://github.com/o/r/issues/7"
urlAfterText == <<"s","e","e"," ">> \o urlIssue
\* an issue URL with one character before the scheme
urlsAfterChar == {<<c>> \o urlIssue : c \in Alphabet \cup {" ", NL}}

\* the link targets of the cases
CaseLinks(longest) ==
    {urlIssue \o t : t \in GenTexts(longest)}
    \cup {urlIssueWord, urlIssueDot, urlOther,
          txtPullUrl, urlIssueFiles, urlIssueComment, urlAfterText}
    \cup urlsAfterChar

\* the texts of a node that comes before a link
CaseLookbacks == {txtFixesColon, txtFixesThis, txtSeeAboveFixes, txtLongSColon, txtSee}

Paragraph(children) == [type |-> "paragraph", text |-> None, link |-> None, children |-> children]

Cases(longest) ==
    {<<TextNode(t)>> : t \in CaseTexts(longest)}
    \cup {<<LinkNode(u)>> : u \in CaseLinks(longest)}
    \cup {<<TextNode(t), LinkNode(urlIssue)>> : t \in CaseLookbacks}
    \cup {<<TextNode(txtFixesOne), TextNode(txtHashTwo)>>,
          <<TextNode(txtFixesColon), TextNode(txtHashTwo)>>,
          <<TextNode(txtFixesOneAnd), LinkNode(urlIssue)>>,
          <<LinkNode(urlIssue), TextNode(txtFixesColon)>>,
          <<Paragraph(<<>>), LinkNode(urlIssue)>>,
          <<Paragraph(<<TextNode(txtFixesColon)>>), LinkNode(urlIssue)>>,
          <<TextNode(txtFixesColon), Paragraph(<<LinkNode(urlIssue)>>)>>,
          <<[type |-> "block_code", text |-> txtFixes, link |-> None, children |-> <<>>]>>,
          <<[type |-> "thematic_break", text |-> None, link |-> None, children |-> <<>>]>>,
          <<[type |-> "block_quote", text |-> None, link |-> None,
             children |-> <<Paragraph(<<TextNode(txtLongS)>>)>>]>>}

ParseCase == ParseIssueBodyOf(Cases(MaxLen))

NextCases ==
    \/ ParseCase
    \/ ParseChildrenReturn
    \/ SkipOpaque
    \/ ParseLink
    \/ ParseTextStart
    \/ ParseTextMention
    \/ ParseTextRef
    \/ ParseTextEnd
    \/ ParseChildrenRecurse

SpecCases == Init /\ [][NextCases]_vars

(***************************************************************************)
(* Properties                                                              *)
(***************************************************************************)
RECURSIVE SumOver(_, _)
SumOver(S, f) ==
    IF S = {} THEN 0
    ELSE LET x == CHOOSE x \in S : TRUE IN f[x] + SumOver(S \ {x}, f)

\* the sum of the lengths of the actions lists
ActionsTotal(iss) == SumOver(DOMAIN iss.actions, [a \in DOMAIN iss.actions |-> Len(iss.actions[a])])

IsRefOrAction(fragment) == fragment.kind \in {"ref", "action"}
IsMention(fragment) == fragment.kind = "mention"

Parsing == pc # "idle"

\* C1: from the construction of the ParsedIssue to the end of the parse, after
\* every submission, refs_and_actions is as long as refs and all the actions
\* lists together.
C1_RefsAndActionsLength ==
    Parsing => Len(ThisIssue.refs_and_actions) = Len(ThisIssue.refs) + ActionsTotal(ThisIssue)

\* a finished parse that filed both a plain reference and an action
C1_Witness ==
    /\ pc = "done"
    /\ Len(ThisIssue.refs) >= 1
    /\ ActionsTotal(ThisIssue) >= 1

\* C2: after every append of the text scanner or the link handler, fragments
\* is as long as refs_and_actions and mentions together.
C2_FragmentsLength ==
    Parsing => Len(ThisIssue.fragments) = Len(ThisIssue.refs_and_actions) + Len(ThisIssue.mentions)

\* a finished parse that filed both a mention and a reference
C2_Witness ==
    /\ pc = "done"
    /\ Len(ThisIssue.mentions) >= 1
    /\ Len(ThisIssue.refs_and_actions) >= 1

\* C3: the reference and action entries of fragments, in order, are
\* refs_and_actions, and its mention entries, in order, are mentions.
C3_FragmentsFilter ==
    Parsing =>
        /\ SelectSeq(ThisIssue.fragments, IsRefOrAction) = ThisIssue.refs_and_actions
        /\ SelectSeq(ThisIssue.fragments, IsMention) = ThisIssue.mentions

\* a parse that filed two different references and a mention
C3_Witness ==
    /\ Parsing
    /\ Len(ThisIssue.refs_and_actions) >= 2
    /\ ThisIssue.refs_and_actions[1] # ThisIssue.refs_and_actions[2]
    /\ Len(ThisIssue.mentions) >= 1

\* C4: the keys of actions are the action names of the action table from the
\* construction of the ParsedIssue to its return, matches or not.
C4_ActionKeys ==
    Parsing => DOMAIN ThisIssue.actions = {"close"}

\* a parse of a tree with nodes that returned without a single fragment
C4_Witness ==
    /\ pc = "done"
    /\ tree # <<>>
    /\ ThisIssue.fragments = <<>>
    /\ \A a \in DOMAIN ThisIssue.actions : ThisIssue.actions[a] = <<>>

(***************************************************************************)
(* Document order: what each fragment says (user name, or slug and issue   *)
(* number), listed by a depth-first, left-to-right reading of the tree.    *)
(***************************************************************************)
FragmentKey(fragment) ==
    IF fragment.kind = "mention" THEN <<"@", fragment.username, 0>>
    ELSE <<"#", fragment.slug, fragment.issue_number>>

MatchKey(match) ==
    IF match.kind = "mention" THEN <<"@", match.mention, 0>>
    ELSE <<"#", match.slug, ToInt(match.issue_number)>>

\* the matches of a text from pos on, left to right
RECURSIVE TextKeys(_, _)
TextKeys(text, pos) ==
    LET match == TextSearch(text, pos)
    IN IF match = NoMatch THEN <<>>
       ELSE <<MatchKey(match)>> \o TextKeys(text, match.end)

LinkKeys(link) ==
    LET match == IssueUrlMatch(link)
    IN IF match = NoMatch THEN <<>> ELSE <<<<"#", match.slug, ToInt(match.issue_number)>>>>

\* a node's own text first, then its children, then its next sibling
RECURSIVE DocKeys(_)
DocKeys(nodes) ==
    IF nodes = <<>> THEN <<>>
    ELSE LET node == Head(nodes)
             own == IF node.type \in {"codespan", "inline_html", "block_code", "block_html"}
                    THEN <<>>
                    ELSE IF node.type = "link" THEN LinkKeys(node.link)
                    ELSE (IF Truthy(node.text) THEN TextKeys(node.text, 1) ELSE <<>>)
                         \o DocKeys(node.children)
         IN own \o DocKeys(Tail(nodes))

Keys(fragments) == [i \in DOMAIN fragments |-> FragmentKey(fragments[i])]

IsPrefix(a, b) == Len(a) <= Len(b) /\ a = SubSeq(b, 1, Len(a))

\* C5: at every point of the parse fragments is the start of the document
\* order reading of the tree and at the end it is the whole of it;
\* "@alice fixes #9" gives the mention of alice, then the close action on 9.
C5_DocumentOrder ==
    Parsing =>
        /\ IsPrefix(Keys(ThisIssue.fragments), DocKeys(tree))
        /\ pc = "done" => Keys(ThisIssue.fragments) = DocKeys(tree)
        /\ pc = "done" /\ tree = <<TextNode(txtMentionFixes)>> =>
              ThisIssue.fragments = <<ParsedIssueMention(<<"a","l","i","c","e">>),
                                  ParsedIssueAction(None, 9, "close")>>

\* a node with a text and a child: the fragment of its text, then the two
\* of the child's text
C5_Witness ==
    /\ pc = "done"
    /\ Len(tree) = 1
    /\ tree[1].text = txtSee
    /\ tree[1].children = <<TextNode(txtMentionFixes)>>
    /\ ThisIssue.fragments = <<ParsedIssueRef(None, 123),
                           ParsedIssueMention(<<"a","l","i","c","e">>),
                           ParsedIssueAction(None, 9, "close")>>

\* the walker is at a link node whose target is an issue URL and whose
\* previous sibling is a text node ending with a keyword and its delimiter
AtLink == InLoop /\ CurrentNode.type = "link"

LinkAfterKeyword ==
    /\ AtLink
    /\ IssueUrlMatch(CurrentNode.link) # NoMatch
    /\ Top.idx > 0
    /\ Top.nodes[Top.idx].type = "text"
    /\ KeywordSearch(Top.nodes[Top.idx].text) # NoMatch

\* the ParsedIssue after one more Action is filed
WithAction(iss, action) ==
    [iss EXCEPT !.actions[action.action] = Append(@, action),
                !.refs_and_actions = Append(@, action),
                !.fragments = Append(@, action)]

\* the ParsedIssue after one more plain Reference is filed
WithRef(iss, ref) ==
    [iss EXCEPT !.refs = Append(@, ref),
                !.refs_and_actions = Append(@, ref),
                !.fragments = Append(@, ref)]

\* C6: a link to an issue URL right after a text node that ends with a
\* keyword and its delimiter is filed as one Action with the keyword's
\* action name and the slug and number of the URL, and not under refs.
C6_LinkKeywordAction ==
    [][LinkAfterKeyword =>
          LET match == IssueUrlMatch(CurrentNode.link)
              keyword_name == KeywordSearch(Top.nodes[Top.idx].text).keyword_name
          IN ThisIssue' = WithAction(ThisIssue, ParsedIssueAction(match.slug,
                                                          ToInt(match.issue_number),
                                                          KEYWORDS[Lower(keyword_name)]))]_vars

\* C7: a link node adds at most one fragment, with the slug and number of
\* its target; the walker goes on to the next sibling without scanning the
\* link's text or entering its children.
C7_LinkLabelIgnored ==
    [][AtLink =>
          /\ Len(stack') = Len(stack)
          /\ stack'[Len(stack')] = [nodes |-> Top.nodes, idx |-> Top.idx + 1, at |-> "node"]
          /\ scan' = NoScan
          /\ ThisIssue'.mentions = ThisIssue.mentions
          /\ \/ ThisIssue' = ThisIssue
             \/ /\ IssueUrlMatch(CurrentNode.link) # NoMatch
                /\ Len(ThisIssue'.fragments) = Len(ThisIssue.fragments) + 1
                /\ IsPrefix(ThisIssue.fragments, ThisIssue'.fragments)
                /\ FragmentKey(ThisIssue'.fragments[Len(ThisIssue'.fragments)])
                     = <<"#", IssueUrlMatch(CurrentNode.link).slug,
                         ToInt(IssueUrlMatch(CurrentNode.link).issue_number)>>]_vars

\* a link whose label holds a reference and a mention: only the link's
\* own target is filed
C7_Witness ==
    /\ pc = "done"
    /\ Len(tree) = 1
    /\ tree[1].type = "link"
    /\ tree[1].children = <<TextNode(txtMentionFixes)>>
    /\ ThisIssue.fragments = <<ParsedIssueRef(<<"o","/","r">>, 7)>>

AtOpaque ==
    InLoop /\ CurrentNode.type \in {"codespan", "inline_html", "block_code", "block_html"}

\* C8: visiting a node of an opaque type leaves the ParsedIssue as it is,
\* scans nothing and enters nothing: the walker goes on to the next sibling.
C8_OpaqueSkipped ==
    [][AtOpaque =>
          /\ ThisIssue' = ThisIssue
          /\ scan' = NoScan
          /\ Len(stack') = Len(stack)
          /\ stack'[Len(stack')] = [nodes |-> Top.nodes, idx |-> Top.idx + 1, at |-> "node"]]_vars

\* an opaque node with a text and a child that both hold references: the
\* parse returns nothing
C8_Witness ==
    /\ pc = "done"
    /\ Len(tree) = 1
    /\ tree[1].type = "block_html"
    /\ tree[1].text = txtFixes
    /\ tree[1].children = <<TextNode(txtSee)>>
    /\ ThisIssue = ParsedIssue({"close"})

\* the scanner holds a reference match
AtTextRef == InLoop /\ Top.at = "text" /\ scan.match # NoMatch /\ scan.match.kind = "ref"

\* C9: a reference submitted with a keyword adds one Action to the list of
\* the keyword's action name, to refs_and_actions and to fragments, and
\* changes nothing else of the ParsedIssue.
C9_KeywordGivesAction ==
    [][AtTextRef /\ scan.match.keyword_name # None =>
          ThisIssue' = WithAction(ThisIssue,
                              ParsedIssueAction(scan.match.slug,
                                                ToInt(scan.match.issue_number),
                                                KEYWORDS[Lower(scan.match.keyword_name)]))]_vars

\* "Fixes #123": one close action on 123 and no plain reference
C9_Witness ==
    /\ pc = "done"
    /\ tree = <<TextNode(txtFixes)>>
    /\ ThisIssue.actions["close"] = <<ParsedIssueAction(None, 123, "close")>>
    /\ ThisIssue.refs_and_actions = <<ParsedIssueAction(None, 123, "close")>>
    /\ ThisIssue.fragments = <<ParsedIssueAction(None, 123, "close")>>
    /\ ThisIssue.refs = <<>>

\* C10: a reference submitted without a keyword, from a text or from a link,
\* adds one Reference to refs, to refs_and_actions and to fragments, and
\* changes nothing else of the ParsedIssue.
C10_NoKeywordGivesRef ==
    [][/\ AtTextRef /\ scan.match.keyword_name = None =>
            ThisIssue' = WithRef(ThisIssue, ParsedIssueRef(scan.match.slug,
                                                   ToInt(scan.match.issue_number)))
       /\ (/\ AtLink
           /\ IssueUrlMatch(CurrentNode.link) # NoMatch
           /\ LinkKeyword(PreviousNode(Top.nodes, Top.idx)) = None) =>
            ThisIssue' = WithRef(ThisIssue,
                             ParsedIssueRef(IssueUrlMatch(CurrentNode.link).slug,
                                            ToInt(IssueUrlMatch(CurrentNode.link).issue_number)))]_vars

\* "See #123": one plain reference to 123 and no action
C10_Witness ==
    /\ pc = "done"
    /\ tree = <<TextNode(txtSee)>>
    /\ ThisIssue.refs = <<ParsedIssueRef(None, 123)>>
    /\ ThisIssue.refs_and_actions = <<ParsedIssueRef(None, 123)>>
    /\ ThisIssue.fragments = <<ParsedIssueRef(None, 123)>>
    /\ ThisIssue.actions["close"] = <<>>

(***************************************************************************)
(* Calls of parse_issue_body from several threads.  A thread that is not   *)
(* running keeps the locals of its call in parked; the objects on the heap *)
(* and the module globals are what the calls could share.                  *)
(***************************************************************************)
\* the most calls made
MaxCalls == 3

\* the locals of the running call as one record
Context == [pc |-> pc, tree |-> tree, issue |-> issue, stack |-> stack, scan |-> scan]

\* the bodies the threads parse
CallBodies ==
    {<<TextNode(txtMentionFixes)>>,
     <<TextNode(txtFixesColon), LinkNode(urlIssue)>>}

ParseCall == ParseIssueBodyOf(CallBodies)

\* another thread is started and is about to call parse_issue_body; the
\* thread that ran until now is parked, in its call or after it
StartCall ==
    /\ pc # "idle"
    /\ Len(parked) + 1 < MaxCalls
    /\ parked' = Append(parked, Context)
    /\ pc' = "idle"
    /\ tree' = <<>>
    /\ issue' = NoIssue
    /\ stack' = <<>>
    /\ scan' = NoScan
    /\ UNCHANGED <<heap, ActionTable, limiter>>

\* the scheduler switches to a parked thread that is inside its call
Switch ==
    /\ pc # "idle"
    /\ \E i \in DOMAIN parked :
        /\ parked[i].pc = "walk"
        /\ parked' = [parked EXCEPT ![i] = Context]
        /\ pc' = parked[i].pc
        /\ tree' = parked[i].tree
        /\ issue' = parked[i].issue
        /\ stack' = parked[i].stack
        /\ scan' = parked[i].scan
    /\ UNCHANGED <<heap, ActionTable, limiter>>

NextCalls ==
    \/ ParseCall
    \/ StartCall
    \/ Switch
    \/ ParseChildrenReturn
    \/ ParseLink
    \/ ParseTextStart
    \/ ParseTextMention
    \/ ParseTextRef
    \/ ParseTextEnd
    \/ ParseChildrenRecurse

SpecCalls == Init /\ [][NextCalls]_vars

(***************************************************************************)
(* The tasks of the event loop making requests through the rate limiter    *)
(***************************************************************************)
NextLimiter ==
    \/ \E t \in Tasks, should_sleep \in BOOLEAN : RateLimiterEnter(t, should_sleep)
    \/ \E t \in Tasks : WakeUp(t)
    \/ \E t \in Tasks : CancelAcquire(t)
    \/ \E t \in Tasks : RateLimiterExit(t)
    \/ ReleaseLater

SpecLimiter == Init /\ [][NextLimiter]_vars

\* the body of an entry at nesting depth d ends
BodyEnds(d) == \E t \in Tasks : Len(task[t].frames) = d /\ RateLimiterExit(t)

\* a request returns or raises, so the body of every entry ends however
\* often it is re-entered; the event loop runs every callback it has
\* scheduled and resumes every task whose wait is over
FairLimiter ==
    /\ SpecLimiter
    /\ \A d \in 1..MaxDepth : SF_vars(BodyEnds(d))
    /\ WF_vars(ReleaseLater)
    /\ WF_vars(\E t \in Tasks : WakeUp(t))

(***************************************************************************)
(* The grammar on the cases                                                *)
(***************************************************************************)
\* the positions of s right after a digit where no word character follows
CleanEnds(s) ==
    {e \in 2..(Len(s) + 1) :
        /\ s[e - 1] \in DigitSet
        /\ e > Len(s) \/ s[e] \notin WordSet}

\* the parse of the body that is the one text node is over
DoneText(text) == pc = "done" /\ tree = <<TextNode(text)>>
\* the parse of the body that is the one link node is over
DoneLink(link) == pc = "done" /\ tree = <<LinkNode(link)>>
\* the parse of a body that is one node without children is over
DoneLeaf == pc = "done" /\ Len(tree) = 1 /\ tree[1].children = <<>>

\* C11: a number is matched only where its digits run up to a character
\* that is not a word character (or to the end): the scanner never holds a
\* match that ends before a word character, a text or a link target gives
\* no more references than it has such places, "#123abc" gives nothing and
\* "#123." the reference to 123, and so for a link target.
C11_NumberBoundary ==
    /\ AtTextRef =>
          /\ scan.match.end > Len(scan.text) \/ scan.text[scan.match.end] \notin WordSet
          /\ scan.text[scan.match.end - 1] \in DigitSet
    /\ DoneLeaf /\ tree[1].type = "text" =>
          Len(ThisIssue.refs_and_actions) <= Cardinality(CleanEnds(tree[1].text))
    /\ DoneLeaf /\ tree[1].type = "link" =>
          Len(ThisIssue.refs_and_actions) <= Cardinality(CleanEnds(tree[1].link))
    /\ DoneText(txtHashWord) => ThisIssue.fragments = <<>>
    /\ DoneText(txtHashDot) => ThisIssue.fragments = <<ParsedIssueRef(None, 123)>>
    /\ DoneLink(urlIssueWord) => ThisIssue.fragments = <<>>
    /\ DoneLink(urlIssueDot) => ThisIssue.fragments = <<ParsedIssueRef(<<"o","/","r">>, 7)>>

\* "#123abc #123.": the first number is passed over, the second is filed
C11_Witness ==
    /\ DoneText(txtHashBoth)
    /\ ThisIssue.fragments = <<ParsedIssueRef(None, 123)>>

\* the text is a letter-case variant of the keyword k followed by " #1"
IsVariantOf(text, k) ==
    /\ Len(text) = Len(k) + Len(txtRefOne)
    /\ SubSeq(text, Len(k) + 1, Len(text)) = txtRefOne
    /\ \A i \in DOMAIN k : text[i] \in {k[i], UpperChar(k[i])}

\* C12: for every keyword and every letter-case variant of it, the parse of
\* the variant followed by " #1" neither raises nor files anything but the
\* one action on 1 that the lower-case spelling gives.
C12_KeywordCase ==
    \A k \in KeywordSet :
        (/\ pc \in {"done", "raised"}
         /\ Len(tree) = 1
         /\ tree[1].type = "text"
         /\ IsVariantOf(tree[1].text, k)) =>
            /\ pc = "done"
            /\ ThisIssue.fragments = <<ParsedIssueAction(None, 1, KEYWORDS[k])>>
            /\ ThisIssue.actions[KEYWORDS[k]] = ThisIssue.fragments
            /\ ThisIssue.refs = <<>>

\* "ReSoLvEd #1" gives the close action on 1
C12_Witness ==
    /\ DoneText(<<"R","e","S","o","L","v","E","d">> \o txtRefOne)
    /\ ThisIssue.fragments = <<ParsedIssueAction(None, 1, "close")>>

\* s is an owner/repo text: two runs of [\w\-\.] with one slash between
IsOwnerRepo(s) ==
    \E i \in 2..(Len(s) - 1) :
        /\ s[i] = "/"
        /\ \A j \in DOMAIN s : j # i => s[j] \in SlugSet

\* the literal lit is written in s from position p on, in any letter case
Written(s, p, lit) ==
    /\ p >= 1
    /\ p + Len(lit) - 1 <= Len(s)
    /\ \A i \in DOMAIN lit : s[p + i - 1] \in {lit[i], UpperChar(lit[i])}

\* where the match m of the text s has its number, and the end of what
\* comes before the number's prefix ("#", "gh-", "/issues/", "/pull/")
NumberStart(m) == m.end - Len(m.issue_number)
SlugStops(s, m, tails) ==
    {NumberStart(m) - Len(lit) : lit \in {t \in tails : Written(s, NumberStart(m) - Len(t), t)}}

\* C13: the slug of a match is the owner/repo text that stands directly
\* before "#", "gh-", "/issues/" or "/pull/", and it is absent only before
\* "#" or "gh-" with no owner/repo text directly before; the examples of
\* the claim give the slugs it names.
C13_Slug ==
    /\ AtTextRef =>
          LET m == scan.match
          IN IF m.slug = None
             THEN \E h \in SlugStops(scan.text, m, AutoTails) :
                      \A a \in 1..(h - 1) : ~IsOwnerRepo(SubSeq(scan.text, a, h - 1))
             ELSE /\ IsOwnerRepo(m.slug)
                  /\ \E h \in SlugStops(scan.text, m, AutoTails \cup UrlTails) :
                         /\ h - Len(m.slug) >= 1
                         /\ m.slug = SubSeq(scan.text, h - Len(m.slug), h - 1)
    /\ DoneText(txtClosesSlug) =>
          ThisIssue.fragments =
              <<ParsedIssueAction(<<"o","t","h","e","r","/","r","e","p","o">>, 45, "close")>>
    /\ DoneText(txtHash45) => ThisIssue.fragments = <<ParsedIssueRef(None, 45)>>
    /\ \A v \in CaseVariants(litGh) :
          DoneText(v \o <<"4","5">>) => ThisIssue.fragments = <<ParsedIssueRef(None, 45)>>
    /\ DoneText(txtPullUrl) => ThisIssue.fragments = <<ParsedIssueRef(<<"o","/","r">>, 7)>>
    /\ DoneText(txtShortUrl) => ThisIssue.fragments = <<ParsedIssueRef(<<"o","/","r">>, 7)>>

\* "o/r/issues/7" in a text: the reference to 7 of o/r
C13_Witness ==
    /\ DoneText(txtShortUrl)
    /\ ThisIssue.refs = <<ParsedIssueRef(<<"o","/","r">>, 7)>>

(***************************************************************************)
(* Several calls                                                           *)
(***************************************************************************)
\* every call, running or parked
Calls == {Context} \cup Range(parked)
\* the calls that have returned
Returned == {c \in Calls : c.pc = "done"}

\* C14: whenever two calls have returned for the same body, in whatever
\* order and with whatever other calls between or beside them, their
\* ParsedIssue values are equal field by field.
C14_Deterministic ==
    \A c, d \in Returned :
        c.tree = d.tree =>
            /\ heap[c.issue].actions = heap[d.issue].actions
            /\ heap[c.issue].refs = heap[d.issue].refs
            /\ heap[c.issue].refs_and_actions = heap[d.issue].refs_and_actions
            /\ heap[c.issue].mentions = heap[d.issue].mentions
            /\ heap[c.issue].fragments = heap[d.issue].fragments

\* two calls have returned for "@alice fixes #9", each with its own object
\* of two fragments, and a call for another body began between their
\* beginnings and has returned too
C14_Witness ==
    \E c, d, e \in Returned :
        /\ c.issue < e.issue
        /\ e.issue < d.issue
        /\ c.tree = <<TextNode(txtMentionFixes)>>
        /\ d.tree = c.tree
        /\ e.tree # c.tree
        /\ Len(heap[c.issue].fragments) = 2
        /\ heap[e.issue].fragments # <<>>

\* the references to a ParsedIssue held by the calls that are not running
Held(others) == {others[i].issue : i \in DOMAIN others} \ {NoIssue}

\* C15: a call constructs a ParsedIssue that no call holds yet and whose
\* lists are empty; no step changes a ParsedIssue of a call that is not
\* running or that has returned; no step writes the action table.
C15_NothingShared ==
    [][/\ pc = "idle" /\ pc' = "walk" =>
            /\ issue' \notin DOMAIN heap
            /\ issue' \notin Held(parked')
            /\ heap'[issue'] = [actions |-> [a \in {"close"} |-> <<>>], refs |-> <<>>,
                                 refs_and_actions |-> <<>>, mentions |-> <<>>,
                                 fragments |-> <<>>]
       /\ \A o \in DOMAIN heap :
            (o \in Held(parked) \/ (o = issue /\ pc = "done")) => heap'[o] = heap[o]
       /\ ActionTable' = ActionTable]_vars

\* two calls on different bodies are under way at once, each with a
\* fragment filed
C15_Witness ==
    /\ pc = "walk"
    /\ ThisIssue.fragments # <<>>
    /\ \E i \in DOMAIN parked :
        /\ parked[i].pc = "walk"
        /\ parked[i].tree # tree
        /\ heap[parked[i].issue].fragments # <<>>

(***************************************************************************)
(* Failure paths and the link lookback                                     *)
(***************************************************************************)
\* the sibling before the node the walker is at, NoNode for the first
Sibling == IF Top.idx = 0 THEN NoNode ELSE Top.nodes[Top.idx]

\* the walker is at a link to an issue URL
AtIssueLink == AtLink /\ IssueUrlMatch(CurrentNode.link) # NoMatch

\* the walker is at a link whose sibling before it is a text node
AfterText == AtLink /\ Top.idx > 0 /\ Sibling.type = "text"

\* C16: every keyword the text scanner holds, and every keyword the
\* lookback pattern finds in the text before a link, is in lower case a key
\* of KEYWORDS, and no parse ends in the KeyError of the lookup.
C16_KeywordLookup ==
    /\ pc # "raised"
    /\ (AtTextRef /\ scan.match.keyword_name # None) =>
          Lower(scan.match.keyword_name) \in DOMAIN ActionTable.KEYWORDS
    /\ (AfterText /\ KeywordSearch(Sibling.text) # NoMatch) =>
          Lower(KeywordSearch(Sibling.text).keyword_name) \in DOMAIN ActionTable.KEYWORDS

\* the walker is at a node that is neither opaque nor a link
AtContainer ==
    InLoop /\ CurrentNode.type \notin {"codespan", "inline_html", "block_code", "block_html", "link"}

\* C17: at a node of any other type than the opaque ones and link the
\* walker scans the text if there is one, then enters the children if there
\* are any, and no step of a parse raises.
C17_NoFailurePath ==
    [][/\ pc' # "raised"
       /\ (AtContainer /\ Top.at = "node") =>
             IF Truthy(CurrentNode.text)
             THEN scan' # NoScan /\ scan'.text = CurrentNode.text /\ scan'.pos = 1
             ELSE scan' = NoScan /\ stack'[Len(stack')].at = "children"
       /\ (AtContainer /\ Top.at = "children") =>
             IF HasChildren(CurrentNode)
             THEN /\ Len(stack') = Len(stack) + 1
                  /\ stack'[Len(stack')] =
                        [nodes |-> CurrentNode.children, idx |-> 0, at |-> "node"]
             ELSE Len(stack') = Len(stack)]_vars

\* C18: the node handed to the link handler as previous sibling is the
\* node one place before the link in the list the walker is in, and none
\* when the link is the first of that list.
C18_PreviousSibling ==
    AtLink => PreviousNode(Top.nodes, Top.idx) = Sibling

\* the text ends with a keyword and its delimiter, the keyword standing at
\* the start of the text or after a character that is not a word character
HasKeywordSuffix(text) ==
    \E k \in KeywordSet :
        \E p \in 1..Len(text) :
            /\ Written(text, p, k)
            /\ p = 1 \/ text[p - 1] \notin WordSet
            /\ p + Len(k) <= Len(text)
            /\ \A i \in (p + Len(k))..Len(text) : text[i] \in BlankSet \cup {":"}
            /\ Cardinality({i \in (p + Len(k))..Len(text) : text[i] = ":"}) <= 1

\* C19: a link to an issue URL is filed as an Action only if the sibling
\* before it is a text node that ends with a keyword and its delimiter; a
\* link that is the first of its list, or comes after a node that is not a
\* text node, or after a text that does not end so, is filed as a plain
\* Reference.
C19_LinkActionOnlyAfterKeyword ==
    [][AtIssueLink =>
          LET match == IssueUrlMatch(CurrentNode.link)
              suffix == AfterText /\ HasKeywordSuffix(Sibling.text)
          IN /\ ThisIssue'.actions # ThisIssue.actions => suffix
             /\ ~suffix =>
                   ThisIssue' = WithRef(ThisIssue,
                                        ParsedIssueRef(match.slug, ToInt(match.issue_number)))]_vars

\* the link after "Fixes this, see " is a plain reference
C19_Witness ==
    /\ pc = "done"
    /\ tree = <<TextNode(txtFixesThis), LinkNode(urlIssue)>>
    /\ ThisIssue.refs = <<ParsedIssueRef(<<"o","/","r">>, 7)>>
    /\ ThisIssue.fragments = ThisIssue.refs

\* C20: the lookback pattern finds the keyword of every text that ends
\* with a keyword and its delimiter, whatever character that is not a word
\* character stands before the keyword, a line break as well.
C20_LookbackAfterAnyNonWord ==
    (AfterText /\ HasKeywordSuffix(Sibling.text)) => KeywordSearch(Sibling.text) # NoMatch

\* ---------------------------------------------------------------------
\* Links that are not issue URLs
\* ---------------------------------------------------------------------

\* the walker is at a link node whose target ISSUE_URL_RE does not match
AtOtherLink == AtLink /\ IssueUrlMatch(CurrentNode.link) = NoMatch

\* C21: a link node whose target is not an issue URL leaves the ParsedIssue
\* as it is, whatever its previous sibling and its label are, and the walk
\* goes on with the next sibling of the link.
C21_OtherLinkNoEffect ==
    [][AtOtherLink =>
          /\ heap' = heap
          /\ issue' = issue
          /\ pc' = "walk"
          /\ scan' = NoScan
          /\ stack' = SetTop([nodes |-> Top.nodes, idx |-> Top.idx + 1, at |-> "node"])]_vars

\* a link to another site right after a keyword and its delimiter: the
\* parse returns with nothing filed
C21_Witness ==
    /\ pc = "done"
    /\ tree = <<TextNode(txtFixesColon), LinkNode(urlOther)>>
    /\ ThisIssue = ParsedIssue(ActionNames)

\* the slug and number of the target u when it begins with the scheme and
\* host, an owner/repo text, "/issues/" or "/pull/" and digits that run up to
\* a character that is not a word character or to the end; empty otherwise
IssueUrlParts(u) ==
    UNION {{[slug |-> SubSeq(u, Len(litHttps) + 1, h - 1),
             number |-> SubSeq(u, h + Len(tail), e - 1)] :
               e \in {x \in (h + Len(tail) + 1)..(Len(u) + 1) :
                         /\ \A i \in (h + Len(tail))..(x - 1) : u[i] \in DigitSet
                         /\ x > Len(u) \/ u[x] \notin WordSet}} :
             <<h, tail>> \in
                 {y \in ((Len(litHttps) + 1)..Len(u)) \X UrlTails :
                     /\ Written(u, 1, litHttps)
                     /\ Written(u, y[1], y[2])
                     /\ IsOwnerRepo(SubSeq(u, Len(litHttps) + 1, y[1] - 1))}}

\* C22: ISSUE_URL_RE is anchored at the start of the target and not at its
\* end: a target that begins with https://github.com/owner/repo/issues/N or
\* /pull/N and then ends or goes on with a non-word character is filed with
\* that slug and N; a target with anything before the scheme, or with a word
\* character right after the digits, is not filed.
C22_UrlAnchoredAtStart ==
    /\ (DoneLeaf /\ tree[1].type = "link") =>
          LET parts == IssueUrlParts(tree[1].link)
          IN /\ Cardinality(parts) <= 1
             /\ ThisIssue.fragments =
                   IF parts = {} THEN <<>>
                   ELSE LET part == CHOOSE x \in parts : TRUE
                        IN <<ParsedIssueRef(part.slug, ToInt(part.number))>>
    /\ \A u \in {urlIssue, urlIssueFiles, urlIssueComment, urlIssueDot} :
          DoneLink(u) => ThisIssue.fragments = <<ParsedIssueRef(<<"o","/","r">>, 7)>>
    /\ DoneLink(txtPullUrl) => ThisIssue.fragments = <<ParsedIssueRef(<<"o","/","r">>, 7)>>
    /\ \A u \in urlsAfterChar \cup {urlAfterText, urlIssueWord} :
          DoneLink(u) => ThisIssue.fragments = <<>>

\* ".../issues/7#issuecomment-1": the reference to 7 of o/r
C22_Witness ==
    /\ DoneLink(urlIssueComment)
    /\ ThisIssue.refs = <<ParsedIssueRef(<<"o","/","r">>, 7)>>

\* ---------------------------------------------------------------------
\* Keyword, delimiter and boundary
\* ---------------------------------------------------------------------

\* d is spaces and tabs with at most one colon, and is not empty
IsDelimiter(d) ==
    /\ d # <<>>
    /\ \A i \in DOMAIN d : d[i] \in {" ", TAB, ":"}
    /\ Cardinality({i \in DOMAIN d : d[i] = ":"}) <= 1

\* C23: a keyword makes the reference after it an Action only when spaces
\* and tabs with at most one colon, at least one character in all, stand
\* between them: "fixes: #1", "fixes #1", "fixes:#1" and "fixes : #1" give
\* an Action; "fixes#1", two colons or a line break in between give none.
C23_Delimiter ==
    /\ \A d \in Delims :
          DoneText(txtFixesThen(d)) =>
              ThisIssue.fragments =
                  IF IsDelimiter(d) THEN <<ParsedIssueAction(None, 1, "close")>>
                  ELSE IF d = <<>> THEN <<>>
                  ELSE <<ParsedIssueRef(None, 1)>>
    /\ \A d \in {<<":"," ">>, <<" ">>, <<":">>, <<" ",":"," ">>} :
          DoneText(txtFixesThen(d)) => Len(ThisIssue.actions["close"]) = 1
    /\ \A d \in {<<>>, <<":",":">>, <<":",":"," ">>, <<" ",":",":">>, <<NL>>, <<":",NL>>, <<" ",NL>>} :
          DoneText(txtFixesThen(d)) => ThisIssue.actions["close"] = <<>>

\* "fixes : #1": the Action on issue 1
C23_Witness ==
    /\ DoneText(txtFixesThen(<<" ",":"," ">>))
    /\ ThisIssue.actions["close"] = <<ParsedIssueAction(None, 1, "close")>>

\* the scanner holds a mention match
AtTextMention ==
    InLoop /\ Top.at = "text" /\ scan.match # NoMatch /\ scan.match.kind = "mention"

\* where in the text s the mention of the match m has its "@"
MentionBegin(m) == m.end - Len(m.mention) - 1

\* where in the text s the reference of the match m can begin: with its
\* keyword if it has one, else with its slug (and the scheme and host when
\* they are written before the slug), else with "#" or "gh-"
RefBegins(s, m) ==
    LET stops == SlugStops(s, m, AutoTails \cup UrlTails)
        slugs == IF m.slug = None THEN stops
                 ELSE {h - Len(m.slug) : h \in stops}
                      \cup {h - Len(m.slug) - Len(litHttps) :
                              h \in {x \in stops :
                                       Written(s, x - Len(m.slug) - Len(litHttps), litHttps)}}
    IN IF m.keyword_name = None THEN slugs
       ELSE {k \in 1..Len(s) :
               \E b \in slugs :
                   /\ k + Len(m.keyword_name) < b
                   /\ SubSeq(s, k, k + Len(m.keyword_name) - 1) = m.keyword_name
                   /\ IsDelimiter(SubSeq(s, k + Len(m.keyword_name), b - 1))}

\* the position q of the text s is its start or follows a non-word character
AfterNonWord(s, q) == q = 1 \/ (q > 1 /\ s[q - 1] \notin WordSet)

\* C24: the scanner emits a reference or a mention only where it starts at
\* the start of a line or right after a character that is not a word
\* character: "abc#12" and "user@host" give no fragment.
C24_StartsAtBoundary ==
    /\ AtTextRef => \E q \in RefBegins(scan.text, scan.match) : AfterNonWord(scan.text, q)
    /\ AtTextMention =>
          /\ scan.text[MentionBegin(scan.match)] = "@"
          /\ AfterNonWord(scan.text, MentionBegin(scan.match))
    /\ \A text \in {txtAbcHash12, txtUserAtHost} :
          DoneText(text) => ThisIssue = ParsedIssue(ActionNames)

\* "user@host" scanned to its end with nothing emitted
C24_Witness ==
    /\ DoneText(txtUserAtHost)
    /\ ThisIssue.fragments = <<>>

\* the end of the longest run of characters of S that starts at p in t
RunEnd(t, p, S) == Min({e \in p..(Len(t) + 1) : e > Len(t) \/ t[e] \notin S})

\* what a text over LineAlphabet holds from position q on, read from left to
\* right: "#" and digits that end at a non-word character, "@" and a name,
\* each at the start of the text or after a non-word character
RECURSIVE LineFragments(_, _)
LineFragments(t, q) ==
    IF q > Len(t) THEN <<>>
    ELSE IF /\ t[q] = "#"
            /\ AfterNonWord(t, q)
            /\ RunEnd(t, q + 1, DigitSet) > q + 1
            /\ RunEnd(t, q + 1, DigitSet) = RunEnd(t, q + 1, WordSet)
         THEN <<ParsedIssueRef(None, ToInt(SubSeq(t, q + 1, RunEnd(t, q + 1, DigitSet) - 1)))>>
              \o LineFragments(t, RunEnd(t, q + 1, DigitSet))
         ELSE IF /\ t[q] = "@"
                 /\ AfterNonWord(t, q)
                 /\ RunEnd(t, q + 1, SlugSet) > q + 1
         THEN <<ParsedIssueMention(SubSeq(t, q + 1, RunEnd(t, q + 1, SlugSet) - 1))>>
              \o LineFragments(t, RunEnd(t, q + 1, SlugSet))
         ELSE LineFragments(t, q + 1)

\* C25: in a text of several lines a reference or mention at the start of
\* any line is recognised, and all matches of the text are emitted in one
\* pass from left to right: "#1 #2" and "#1,#2" give both references.
C25_EveryLineOnePass ==
    /\ (DoneLeaf /\ tree[1].type = "text"
          /\ \A i \in DOMAIN tree[1].text : tree[1].text[i] \in LineAlphabet) =>
          ThisIssue.fragments = LineFragments(tree[1].text, 1)
    /\ DoneText(<<"#","1"," ","#","2">>) =>
          ThisIssue.fragments = <<ParsedIssueRef(None, 1), ParsedIssueRef(None, 2)>>
    /\ DoneText(txtTwoComma) =>
          ThisIssue.fragments = <<ParsedIssueRef(None, 1), ParsedIssueRef(None, 2)>>
    /\ DoneText(txtThreeLines) =>
          ThisIssue.fragments = <<ParsedIssueRef(None, 1),
                                  ParsedIssueMention(<<"b","o","b">>)>>

\* "#1", line break, "@a": the reference of the first line and the mention
\* that opens the second
C25_Witness ==
    /\ DoneText(<<"#","1",NL,"@","a">>)
    /\ ThisIssue.fragments = <<ParsedIssueRef(None, 1), ParsedIssueMention(<<"a">>)>>

\* the name written after the "@" at position q of the text s
NameAfter(s, q) == SubSeq(s, q + 1, RunEnd(s, q + 1, SlugSet) - 1)

\* C26: each mention match, "@" and one or more word characters, hyphens or
\* dots, adds one Mention with the name after the "@" to mentions and to
\* fragments, and leaves refs, refs_and_actions and every actions list as
\* they are.
C26_MentionEffect ==
    [][AtTextMention =>
          LET q == MentionBegin(scan.match)
          IN /\ scan.text[q] = "@"
             /\ NameAfter(scan.text, q) # <<>>
             /\ issue' = issue
             /\ ThisIssue' =
                   [ThisIssue EXCEPT
                       !.mentions = Append(@, ParsedIssueMention(NameAfter(scan.text, q))),
                       !.fragments = Append(@, ParsedIssueMention(NameAfter(scan.text, q)))]]_vars

\* "@a-b.c_d": one Mention with the whole name, nothing under the references
C26_Witness ==
    /\ DoneText(txtMentionDots)
    /\ ThisIssue.mentions = <<ParsedIssueMention(<<"a","-","b",".","c","_","d">>)>>
    /\ ThisIssue.fragments = ThisIssue.mentions
    /\ ThisIssue.refs_and_actions = <<>>

\* C27: a keyword that comes right after a word character is not taken as a
\* keyword, and the reference after it is still emitted: "prefixes #1"
\* gives one plain Reference to issue 1 and no Action.
C27_KeywordAfterWordChar ==
    /\ \A text \in txtsWordKeyword \cup {txtPrefixes} :
          DoneText(text) =>
              /\ ThisIssue.fragments = <<ParsedIssueRef(None, 1)>>
              /\ ThisIssue.refs = <<ParsedIssueRef(None, 1)>>
              /\ \A a \in DOMAIN ThisIssue.actions : ThisIssue.actions[a] = <<>>
    /\ AtTextRef /\ scan.match.keyword_name # None =>
          \E k \in RefBegins(scan.text, scan.match) :
              /\ AfterNonWord(scan.text, k)
              /\ SubSeq(scan.text, k, k + Len(scan.match.keyword_name) - 1)
                    = scan.match.keyword_name

\* "prefixes #1": the plain Reference to issue 1
C27_Witness ==
    /\ DoneText(txtPrefixes)
    /\ ThisIssue.refs_and_actions = <<ParsedIssueRef(None, 1)>>

\* the results of the parses that end with a reference after an Action
KeywordUsedOnce ==
    /\ DoneText(txtFixesOneAndTwo) =>
          /\ ThisIssue.fragments = <<ParsedIssueAction(None, 1, "close"), ParsedIssueRef(None, 2)>>
          /\ ThisIssue.actions["close"] = <<ParsedIssueAction(None, 1, "close")>>
          /\ ThisIssue.refs = <<ParsedIssueRef(None, 2)>>
    /\ \A text \in {txtFixesOne, txtFixesColon} :
          (pc = "done" /\ tree = <<TextNode(text), TextNode(txtHashTwo)>>) =>
              /\ ThisIssue.refs = <<ParsedIssueRef(None, 2)>>
              /\ Len(ThisIssue.actions["close"]) = IF text = txtFixesOne THEN 1 ELSE 0
    /\ (pc = "done" /\ tree = <<TextNode(txtFixesOneAnd), LinkNode(urlIssue)>>) =>
          ThisIssue.fragments = <<ParsedIssueAction(None, 1, "close"),
                                  ParsedIssueRef(<<"o","/","r">>, 7)>>

\* C28: a keyword applies to the one reference that directly follows its
\* delimiter and to no later one: the scanner files an Action only for a
\* match that has its own keyword written before it with nothing but the
\* delimiter between; in "fixes #1 and #2" issue 1 is an Action and issue 2
\* a plain Reference, and a reference of a later node is plain too.
C28_KeywordAppliesOnce ==
    [][/\ AtTextRef /\ scan.match.keyword_name = None =>
              ThisIssue'.actions = ThisIssue.actions
       /\ AtTextRef /\ ThisIssue'.actions # ThisIssue.actions =>
              /\ scan.match.keyword_name # None
              /\ RefBegins(scan.text, scan.match) # {}
              /\ ActionsTotal(ThisIssue') = ActionsTotal(ThisIssue) + 1
       /\ KeywordUsedOnce']_vars

\* "fixes #1 and #2": the Action on 1, then the plain Reference to 2
C28_Witness ==
    /\ DoneText(txtFixesOneAndTwo)
    /\ ThisIssue.refs_and_actions =
          <<ParsedIssueAction(None, 1, "close"), ParsedIssueRef(None, 2)>>

\* ---------------------------------------------------------------------
\* The lists of a ParsedIssue against each other
\* ---------------------------------------------------------------------

IsPlainRef(fragment) == fragment.kind = "ref"

\* the entries of a list of fragments that are Actions with the action a
ActionsOf(fragments, a) ==
    LET IsActionA(fragment) == fragment.kind = "action" /\ fragment.action = a
    IN SelectSeq(fragments, IsActionA)

\* C29: refs_and_actions is the order-preserving merge of refs and the
\* actions lists: each of its entries is a plain Reference or an Action of a
\* known action; its plain References in order are refs, its Actions with
\* action a in order are actions[a], and every entry of actions[a] has the
\* action a.
C29_MergeOfRefsAndActions ==
    Parsing =>
        /\ \A i \in DOMAIN ThisIssue.refs_and_actions :
              LET entry == ThisIssue.refs_and_actions[i]
              IN \/ entry.kind = "ref"
                 \/ entry.kind = "action" /\ entry.action \in DOMAIN ThisIssue.actions
        /\ SelectSeq(ThisIssue.refs_and_actions, IsPlainRef) = ThisIssue.refs
        /\ \A a \in DOMAIN ThisIssue.actions :
              /\ ActionsOf(ThisIssue.refs_and_actions, a) = ThisIssue.actions[a]
              /\ \A i \in DOMAIN ThisIssue.actions[a] :
                    /\ ThisIssue.actions[a][i].kind = "action"
                    /\ ThisIssue.actions[a][i].action = a
        /\ Len(ThisIssue.refs_and_actions)
              = Len(ThisIssue.refs) + ActionsTotal(ThisIssue)

\* a plain Reference, then an Action, then a plain Reference again
C29_Witness ==
    /\ pc = "done"
    /\ Len(ThisIssue.refs_and_actions) = 3
    /\ ThisIssue.refs_and_actions[1].kind = "ref"
    /\ ThisIssue.refs_and_actions[2].kind = "action"
    /\ ThisIssue.refs_and_actions[3].kind = "ref"
    /\ Len(ThisIssue.refs) = 2
    /\ Len(ThisIssue.actions["close"]) = 1

(***************************************************************************)
(* The rate limiter                                                        *)
(***************************************************************************)
\* what holds of the limiter in every state: one task at most is inside, the
\* owner is inside and waits for nothing, the flag tells whether an entry of
\* the period asked for sleep, and while a delayed release is scheduled the
\* lock is held with no owner and no task inside
LimiterSafe ==
    /\ \A t, u \in Tasks : Inside(t) /\ Inside(u) => t = u
    /\ \A t \in Tasks : Inside(t) <=> gh_lock_owner = t
    /\ \A t \in Tasks : gh_lock_owner = t =>
          /\ gh_lock.locked
          /\ task[t].at = "run"
          /\ \A i \in DOMAIN gh_lock.waiters : gh_lock.waiters[i] # t
          /\ Len(task[t].frames) < MaxDepth => ENABLED RateLimiterEnter(t, TRUE)
    /\ gh_lock_should_sleep <=> TRUE \in asked
    /\ gh_lock_owner = NoTask => ~gh_lock_should_sleep
    /\ timers > 0 =>
          /\ timers = 1
          /\ gh_lock.locked
          /\ gh_lock_owner = NoTask
          /\ \A t \in Tasks : ~Inside(t)

\* what holds of every step of the limiter: an entry of the owner reaches
\* its body in the same step; when the owner leaves, the lock is kept for a
\* delayed release if an entry of the period asked for sleep and is released
\* at once if none did; only the delayed release frees a lock kept for it
LimiterStep ==
    /\ \A t \in Tasks :
          (gh_lock_owner = t /\ Len(task'[t].frames) > Len(task[t].frames)) =>
              /\ task'[t].at = "run"
              /\ gh_lock_owner' = t
              /\ gh_lock' = gh_lock
    /\ \A t \in Tasks :
          (gh_lock_owner = t /\ gh_lock_owner' # t) =>
              IF TRUE \in asked
              THEN gh_lock'.locked /\ gh_lock_owner' = NoTask /\ timers' = timers + 1
              ELSE ~gh_lock'.locked /\ gh_lock_owner' = NoTask /\ timers' = timers
    /\ timers > 0 =>
          /\ \A t \in Tasks : ~Inside(t)'
          /\ gh_lock'.locked <=> timers' > 0

\* C30: github_rate_limiter serialises requests across tasks: two tasks are
\* never inside its body together; the owner re-enters without blocking;
\* when an entry of an ownership period asked for sleep the lock stays held
\* after the owner has left until the delayed release fires, and no task,
\* the former owner included, enters before; when no entry asked for sleep
\* the lock is released at exit; a held lock is always released in the end.
C30_RateLimiter ==
    /\ []LimiterSafe
    /\ [][LimiterStep]_vars
    /\ (gh_lock.locked ~> ~gh_lock.locked)

\* the owner has left after a request that sleeps, the delayed release is
\* still to fire, and every task, the former owner too, waits for the lock
C30_Witness ==
    /\ timers = 1
    /\ gh_lock.locked
    /\ gh_lock_owner = NoTask
    /\ \A t \in Tasks : task[t].at = "acquire"

====
